---- MODULE Spec2Model ----
(***************************************************************************)
(* Model of minesweeper.py: the Sentence class, the MinesweeperAI          *)
(* knowledge base (moves_made, mines, safes, knowledge), the fixpoint      *)
(* loop knowledge_update, add_knowledge and make_safe_move, driven by a    *)
(* Minesweeper board that reports true adjacent-mine counts.               *)
(***************************************************************************)
EXTENDS Integers, Sequences, FiniteSets, TLC

VARIABLES
    board,       \* Minesweeper.mines: the cells of the minefield
    moves_made,  \* MinesweeperAI.moves_made
    mines,       \* MinesweeperAI.mines
    safes,       \* MinesweeperAI.safes
    knowledge,   \* MinesweeperAI.knowledge: list of sentences [cells, count]
    pc,          \* control point inside add_knowledge / knowledge_update
    i,           \* knowledge_update: the sentence bound to the outer loop variable
    oi,          \* knowledge_update: index of the outer list iterator
    ji,          \* knowledge_update: index of the inner list iterator
    breaker,     \* knowledge_update: the local flag
    ret          \* value returned by the last make_safe_move call

vars == <<board, moves_made, mines, safes, knowledge, pc, i, oi, ji, breaker, ret>>

-----------------------------------------------------------------------------
\* Bounds of the model
Height   == 3   \* board rows
Width    == 3   \* board columns
MaxMines == 2   \* at most this many mines on the board
MaxMoves == 4   \* at most this many cells are opened
KUCells  == 3   \* cells used by the sentences of the free-standing lists
MaxLen   == 3   \* longest free-standing knowledge list
MaxCount == 1   \* largest count of a sentence in a free-standing list
MaxReported == 1  \* largest count reported to add_knowledge by an arbitrary caller
MaxCalls == 2     \* add_knowledge calls made next to direct mark_mine / mark_safe calls

Cells == (0 .. Height - 1) \X (0 .. Width - 1)

None      == <<>>        \* Python None returned by make_safe_move
NotCalled == << -1 >>    \* no make_safe_move result is pending

-----------------------------------------------------------------------------
\* class Minesweeper

nearby_mines(cell) ==
    Cardinality({ c \in board :
                    /\ c[1] \in (cell[1] - 1) .. (cell[1] + 1)
                    /\ c[2] \in (cell[2] - 1) .. (cell[2] + 1)
                    /\ c # cell })

-----------------------------------------------------------------------------
\* class Sentence

Sentence(cells, count) == [cells |-> cells, count |-> count]

known_mines(s) ==
    IF Cardinality(s.cells) = s.count /\ s.count # 0 THEN s.cells ELSE {}

\* mutant: the test is count <= 0
known_safes_NonPositive(s) ==
    IF s.count <= 0 THEN s.cells ELSE {}

known_safes(s) ==
    IF s.count = 0 THEN s.cells ELSE {}

\* mutant: the cell is removed and the count is kept
Sentence_mark_mine_KeepCount(s, cell) ==
    IF cell \in s.cells
    THEN [s EXCEPT !.cells = s.cells \ {cell}]
    ELSE s

Sentence_mark_mine(s, cell) ==
    IF cell \in s.cells
    THEN [cells |-> s.cells \ {cell}, count |-> s.count - 1]
    ELSE s

\* mutant: the count is decremented as for a mine
Sentence_mark_safe_Decrement(s, cell) ==
    IF cell \in s.cells
    THEN [cells |-> s.cells \ {cell}, count |-> s.count - 1]
    ELSE s

Sentence_mark_safe(s, cell) ==
    IF cell \in s.cells
    THEN [s EXCEPT !.cells = s.cells \ {cell}]
    ELSE s

-----------------------------------------------------------------------------
\* Python list operations used on self.knowledge

\* `s in k`: membership by Sentence.__eq__ (cells and count)
Contains(k, s) == \E n \in 1 .. Len(k) : k[n] = s

\* k.remove(s): drops the first element equal to s
Remove(k, s) ==
    LET n == CHOOSE m \in 1 .. Len(k) :
                 k[m] = s /\ \A l \in 1 .. (m - 1) : k[l] # s
    IN  [l \in 1 .. (Len(k) - 1) |-> IF l < n THEN k[l] ELSE k[l + 1]]

\* mutant: the comparison is a <= b
StrictSubset_OrEqual(a, b) == a \subseteq b

\* the strict-subset comparison of two Python sets, a < b
StrictSubset(a, b) == a \subseteq b /\ a # b

-----------------------------------------------------------------------------
\* MinesweeperAI.knowledge_update, one step of the loop nest at a time.
\* st = [knowledge, i, oi, ji, breaker, pc]

\* mutant: the tests for an empty cell-set are missing
PruneEmpty_Unchecked(k, si, sj) ==
    LET k1 == IF Contains(k, si) THEN Remove(k, si) ELSE k
    IN  IF Contains(k1, sj) THEN Remove(k1, sj) ELSE k1

\* the else-branch of the loop body: drop i, then j, when empty and present
PruneEmpty(k, si, sj) ==
    LET k1 == IF Contains(k, si) /\ si.cells = {} THEN Remove(k, si) ELSE k
    IN  IF Contains(k1, sj) /\ sj.cells = {} THEN Remove(k1, sj) ELSE k1

\* mutant: the count of the superset sentence is left as it was
Difference_KeepCount(sj, si) == Sentence(sj.cells \ si.cells, sj.count)

\* j.cells -= i.cells; j.count -= i.count
Difference(sj, si) == Sentence(sj.cells \ si.cells, sj.count - si.count)

\* mutant: the flag is cleared for every pair of non-empty sentences
LoopBody_AlwaysAgain(st, n) ==
    LET k == st.knowledge
        j == k[n]
    IN  IF st.i.cells # {} /\ j.cells # {}
        THEN IF StrictSubset(st.i.cells, j.cells)
             THEN [st EXCEPT !.knowledge[n] = Difference(j, st.i),
                             !.breaker = FALSE]
             ELSE [st EXCEPT !.breaker = FALSE]
        ELSE [st EXCEPT !.knowledge = PruneEmpty(k, st.i, j)]

\* the loop body for the pair (st.i, j) where j is the element at position n
LoopBody(st, n) ==
    LET k == st.knowledge
        j == k[n]
    IN  IF st.i.cells # {} /\ j.cells # {}
        THEN IF StrictSubset(st.i.cells, j.cells)
             THEN [st EXCEPT !.knowledge[n] = Difference(j, st.i),
                             !.breaker = FALSE]
             ELSE st
        ELSE [st EXCEPT !.knowledge = PruneEmpty(k, st.i, j)]

knowledge_update_step(st) ==
    CASE st.pc = "while" ->
            [st EXCEPT !.breaker = TRUE, !.oi = 0, !.pc = "for_i"]
      [] st.pc = "for_i" ->
            IF st.oi < Len(st.knowledge)
            THEN [st EXCEPT !.i = st.knowledge[st.oi + 1], !.oi = st.oi + 1,
                            !.ji = 0, !.pc = "for_j"]
            ELSE IF st.breaker THEN [st EXCEPT !.pc = "return"]
                               ELSE [st EXCEPT !.pc = "while"]
      [] st.pc = "for_j" ->
            IF st.ji < Len(st.knowledge)
            THEN [LoopBody(st, st.ji + 1) EXCEPT !.ji = st.ji + 1]
            ELSE [st EXCEPT !.pc = "for_i"]
      [] OTHER -> st

KUState == [knowledge |-> knowledge, i |-> i, oi |-> oi, ji |-> ji,
            breaker |-> breaker, pc |-> pc]

KUStep ==
    /\ pc \in {"while", "for_i", "for_j"}
    /\ LET st == knowledge_update_step(KUState)
       IN  /\ knowledge' = st.knowledge
           /\ i' = st.i
           /\ oi' = st.oi
           /\ ji' = st.ji
           /\ breaker' = st.breaker
           /\ pc' = st.pc
    /\ UNCHANGED <<board, moves_made, mines, safes, ret>>

-----------------------------------------------------------------------------
\* MinesweeperAI.add_knowledge

nearby_cells(cell) ==
    { c \in Cells :
        /\ c[1] \in (cell[1] - 1) .. (cell[1] + 1)
        /\ c[2] \in (cell[2] - 1) .. (cell[2] + 1)
        /\ c # cell }

\* MinesweeperAI.mark_safe applied to the sentence list
mark_safe(k, cell) == [n \in 1 .. Len(k) |-> Sentence_mark_safe(k[n], cell)]

\* MinesweeperAI.mark_mine applied to the sentence list
mark_mine(k, cell) == [n \in 1 .. Len(k) |-> Sentence_mark_mine(k[n], cell)]

\* mutant: the cells already known to be safe are not taken out
nearby_unknown_KeepSafes(cell, moves, ms, ss) == (nearby_cells(cell) \ moves) \ ms

nearby_unknown(cell, moves, ms, ss) == ((nearby_cells(cell) \ moves) \ ms) \ ss

\* mutant: the neighbours already known to be mines are not subtracted
nearby_unknown_count_Raw(cell, count, ms) == count

nearby_unknown_count(cell, count, ms) ==
    count - Cardinality(nearby_cells(cell) \cap ms)

\* lines 219-240: record the move, mark it safe, build and append the sentence
add_knowledge(cell, count) ==
    /\ pc = "idle"
    /\ LET moves1 == moves_made \cup {cell}
           safes1 == safes \cup {cell}
           k1     == mark_safe(knowledge, cell)
           nu     == nearby_unknown(cell, moves1, mines, safes1)
           nc     == nearby_unknown_count(cell, count, mines)
       IN  /\ moves_made' = moves1
           /\ safes' = safes1
           /\ IF nu # {}
              THEN /\ knowledge' = Append(k1, Sentence(nu, nc))
                   /\ pc' = "while"
              ELSE /\ knowledge' = k1
                   /\ pc' = "extract"
    /\ ret' = NotCalled
    /\ UNCHANGED <<board, mines, i, oi, ji, breaker>>

\* knowledge_update returns into add_knowledge
KUReturn ==
    /\ pc = "return"
    /\ pc' = "extract"
    /\ UNCHANGED <<board, moves_made, mines, safes, knowledge, i, oi, ji, breaker, ret>>

\* mutant: only the sentence appended last is asked for its safes
ExtractSafes_LastOnly(k, ss) ==
    IF k = <<>> THEN ss ELSE ss \cup known_safes(k[Len(k)])

ExtractSafes(k, ss) == ss \cup UNION { known_safes(k[n]) : n \in 1 .. Len(k) }

\* mutant: only the sentence appended last is asked for its mines
ExtractMines_LastOnly(k, ms) ==
    IF k = <<>> THEN ms ELSE ms \cup known_mines(k[Len(k)])

ExtractMines(k, ms) == ms \cup UNION { known_mines(k[n]) : n \in 1 .. Len(k) }

\* lines 242-244: merge the facts of every sentence, then return
Extract ==
    /\ pc = "extract"
    /\ safes' = ExtractSafes(knowledge, safes)
    /\ mines' = ExtractMines(knowledge, mines)
    /\ pc' = "idle"
    /\ UNCHANGED <<board, moves_made, knowledge, i, oi, ji, breaker, ret>>

-----------------------------------------------------------------------------
\* MinesweeperAI.make_safe_move

\* mutant: the test against moves_made is missing
SafeMoveCandidates_AnySafe == safes

\* the cells the for-loop can return: iteration order of a set is arbitrary
SafeMoveCandidates == { move \in safes : move \notin moves_made /\ move \in safes }

\* mutant: the returned move is recorded as made
make_safe_move_Recording ==
    /\ pc = "idle"
    /\ ret = NotCalled
    /\ IF SafeMoveCandidates # {}
       THEN ret' \in SafeMoveCandidates /\ moves_made' = moves_made \cup {ret'}
       ELSE ret' = None /\ moves_made' = moves_made
    /\ UNCHANGED <<board, mines, safes, knowledge, pc, i, oi, ji, breaker>>

make_safe_move ==
    /\ pc = "idle"
    /\ ret = NotCalled
    /\ IF SafeMoveCandidates # {}
       THEN ret' \in SafeMoveCandidates
       ELSE ret' = None
    /\ UNCHANGED <<board, moves_made, mines, safes, knowledge, pc, i, oi, ji, breaker>>

-----------------------------------------------------------------------------
\* The game: a board-consistent sequence of add_knowledge calls

Init ==
    /\ board \in { b \in SUBSET Cells : Cardinality(b) <= MaxMines }
    /\ moves_made = {}
    /\ mines = {}
    /\ safes = {}
    /\ knowledge = <<>>
    /\ pc = "idle"
    /\ i = Sentence({}, 0)
    /\ oi = 0
    /\ ji = 0
    /\ breaker = TRUE
    /\ ret = NotCalled

\* the driver opens an unopened cell that is not a mine and reports its count
OpenCell ==
    /\ Cardinality(moves_made) < MaxMoves
    /\ \E cell \in (Cells \ board) \ moves_made :
           add_knowledge(cell, nearby_mines(cell))

Next == OpenCell \/ KUStep \/ KUReturn \/ Extract \/ make_safe_move

Spec == Init /\ [][Next]_vars

-----------------------------------------------------------------------------
\* A caller that reports arbitrary counts: add_knowledge takes any integer
\* and the sequence of calls need not agree with any minefield

InitAny ==
    /\ board = {}
    /\ moves_made = {}
    /\ mines = {}
    /\ safes = {}
    /\ knowledge = <<>>
    /\ pc = "idle"
    /\ i = Sentence({}, 0)
    /\ oi = 0
    /\ ji = 0
    /\ breaker = TRUE
    /\ ret = NotCalled

OpenAny ==
    /\ Cardinality(moves_made) < MaxMoves
    /\ \E cell \in Cells \ moves_made, count \in 0 .. MaxReported :
           add_knowledge(cell, count)

NextAny == OpenAny \/ KUStep \/ KUReturn \/ Extract

SpecAny == InitAny /\ [][NextAny]_vars

-----------------------------------------------------------------------------
\* Every public operation of MinesweeperAI, called in any order

\* mutant: a cell marked as a mine is taken out of safes
AI_mark_mine_Exclusive(cell) ==
    /\ pc = "idle"
    /\ mines' = mines \cup {cell}
    /\ safes' = safes \ {cell}
    /\ knowledge' = mark_mine(knowledge, cell)
    /\ UNCHANGED <<board, moves_made, pc, i, oi, ji, breaker, ret>>

\* MinesweeperAI.mark_mine(cell)
AI_mark_mine(cell) ==
    /\ pc = "idle"
    /\ mines' = mines \cup {cell}
    /\ knowledge' = mark_mine(knowledge, cell)
    /\ UNCHANGED <<board, moves_made, safes, pc, i, oi, ji, breaker, ret>>

\* MinesweeperAI.mark_safe(cell)
AI_mark_safe(cell) ==
    /\ pc = "idle"
    /\ safes' = safes \cup {cell}
    /\ knowledge' = mark_safe(knowledge, cell)
    /\ UNCHANGED <<board, moves_made, mines, pc, i, oi, ji, breaker, ret>>

\* the cells random.choice picks from
potential_moves == { c \in Cells : c \notin moves_made /\ c \notin mines }

make_random_move ==
    /\ pc = "idle"
    /\ ret = NotCalled
    /\ IF potential_moves # {}
       THEN ret' \in potential_moves
       ELSE ret' = None
    /\ UNCHANGED <<board, moves_made, mines, safes, knowledge, pc, i, oi, ji, breaker>>

OpenSome ==
    /\ Cardinality(moves_made) < MaxCalls
    /\ \E cell \in Cells \ moves_made, count \in 0 .. MaxReported :
           add_knowledge(cell, count)

\* the cells handed to direct mark_mine / mark_safe calls
MarkCells == { c \in Cells : c[1] = 0 /\ c[2] < KUCells }

MarkMine == \E cell \in MarkCells : AI_mark_mine(cell)

MarkSafe == \E cell \in MarkCells : AI_mark_safe(cell)

NextOps ==
    \/ OpenSome
    \/ KUStep
    \/ KUReturn
    \/ Extract
    \/ MarkMine
    \/ MarkSafe
    \/ make_safe_move
    \/ make_random_move

SpecOps == InitAny /\ [][NextOps]_vars

-----------------------------------------------------------------------------
\* knowledge_update on free-standing lists: any sentences, empty cell-sets,
\* duplicates and inconsistent counts included

ListCells == { <<0, c>> : c \in 0 .. (KUCells - 1) }

ListSentences == { Sentence(cs, n) : cs \in SUBSET ListCells, n \in 0 .. MaxCount }

Lists == UNION { [1 .. len -> ListSentences] : len \in 0 .. MaxLen }

InitKU ==
    /\ board = {}
    /\ moves_made = {}
    /\ mines = {}
    /\ safes = {}
    /\ knowledge \in Lists
    /\ pc = "while"
    /\ i = Sentence({}, 0)
    /\ oi = 0
    /\ ji = 0
    /\ breaker = TRUE
    /\ ret = NotCalled

NextKU == KUStep \/ KUReturn \/ Extract

SpecKU == InitKU /\ [][NextKU]_vars

\* the interpreter keeps executing the loop: no step is postponed forever
SpecKUFair == SpecKU /\ WF_vars(NextKU)

\* knowledge_update run to its return on the list k
RECURSIVE Run(_)
Run(st) == IF st.pc = "return" THEN st ELSE Run(knowledge_update_step(st))

Updated(k) ==
    Run([knowledge |-> k, i |-> Sentence({}, 0), oi |-> 0, ji |-> 0,
         breaker |-> TRUE, pc |-> "while"]).knowledge

\* the lists that hold the elements of k in another order
Reorderings(k) ==
    { [n \in 1 .. Len(k) |-> k[f[n]]] :
        f \in { g \in [1 .. Len(k) -> 1 .. Len(k)] :
                  \A a, b \in 1 .. Len(k) : a # b => g[a] # g[b] } }

\* knowledge_update is entered with the flag still TRUE; a further pass of the
\* while loop starts with it FALSE
AtEntry == pc = "while" /\ breaker

-----------------------------------------------------------------------------
\* Properties

IsCell(x) == x # None /\ x # NotCalled

Sentences == { knowledge[n] : n \in 1 .. Len(knowledge) }

\* C1: against the real minefield, every cell of safes is not a mine, every
\* cell of mines is a mine, and a cell returned by make_safe_move is not a mine.
Soundness ==
    /\ safes \cap board = {}
    /\ mines \subseteq board
    /\ IsCell(ret) => ret \notin board

\* a mine and an unopened safe cell have been derived and a safe move returned
SoundnessWitness ==
    /\ mines # {}
    /\ IsCell(ret)
    /\ \E s \in Sentences : s.count > 0

\* C2: make_safe_move returns a cell of safes that is not in moves_made when
\* there is one, and None exactly when safes \ moves_made is empty.
SafeMoveContract ==
    ret # NotCalled =>
        /\ (ret = None) <=> (safes \ moves_made = {})
        /\ ret # None => ret \in safes \ moves_made

\* a move was returned while several candidates, and opened safes, existed
SafeMoveWitness ==
    /\ IsCell(ret)
    /\ Cardinality(safes \ moves_made) > 1
    /\ moves_made # {}

\* C3: mines and safes are disjoint in every state of a board-consistent game.
MinesSafesDisjoint == mines \cap safes = {}

\* both a mine and a not yet opened safe cell are known
DisjointWitness ==
    /\ pc = "idle"
    /\ mines # {}
    /\ safes \ moves_made # {}

\* C4: when add_knowledge has returned, no sentence holds a cell that is in
\* mines, safes or moves_made.
PurgeInvariant ==
    pc = "idle" =>
        \A s \in Sentences : s.cells \cap (mines \cup safes \cup moves_made) = {}

\* C5: knowledge_update returns for every knowledge list, and the while loop
\* starts another pass only after a step in which a sentence's cell-set
\* strictly shrank.
Termination ==
    /\ <>(pc = "return")
    /\ [][ /\ (pc = "for_i" /\ pc' = "while") => ~breaker
           /\ (breaker /\ ~breaker') =>
                  /\ Len(knowledge') = Len(knowledge)
                  /\ \E n \in 1 .. Len(knowledge) :
                         StrictSubset(knowledge'[n].cells, knowledge[n].cells) ]_vars

\* a further pass of the while loop is started after a subset elimination
TerminationWitness ==
    /\ pc = "while"
    /\ ~breaker
    /\ \E s \in Sentences : s.count < 0

\* C6: when knowledge_update has returned inside add_knowledge, a second run
\* would change nothing: the list holds no empty sentence and no two non-empty
\* sentences of which one's cells are a strict subset of the other's.
Idempotence ==
    pc = "return" =>
        /\ \A s \in Sentences : s.cells # {}
        /\ \A a, b \in Sentences :
               ~(a.cells # {} /\ StrictSubset(a.cells, b.cells))

\* C7: the mines and safes obtained from a list of sentences by
\* knowledge_update and the extraction are those obtained from the same
\* sentences in any other order.
OrderIndependence ==
    AtEntry =>
        \A p \in Reorderings(knowledge) :
            /\ ExtractMines(Updated(p), mines) = ExtractMines(Updated(knowledge), mines)
            /\ ExtractSafes(Updated(p), safes) = ExtractSafes(Updated(knowledge), safes)

\* C8: when add_knowledge has returned, every sentence of count 0 has all of
\* its cells in safes and none of them in mines.
SafeFactExtraction ==
    pc = "idle" =>
        \A s \in Sentences :
            s.count = 0 => s.cells \subseteq safes /\ s.cells \cap mines = {}

\* while a mine is known, a sentence other than the last has count 0 and
\* still holds cells, none of them opened
SafeFactWitness ==
    /\ pc = "idle"
    /\ mines # {}
    /\ \E n \in 1 .. (Len(knowledge) - 1) :
           /\ knowledge[n].count = 0
           /\ knowledge[n].cells # {}
           /\ knowledge[n].cells \cap moves_made = {}

\* C9: when add_knowledge has returned, every sentence whose count is
\* positive and equals the size of its cell-set has all of its cells in mines.
MineFactExtraction ==
    pc = "idle" =>
        \A s \in Sentences :
            (s.count = Cardinality(s.cells) /\ s.count > 0) => s.cells \subseteq mines

\* an earlier sentence was reduced to all mines
MineFactWitness ==
    /\ pc = "idle"
    /\ \E n \in 1 .. (Len(knowledge) - 1) :
           /\ knowledge[n].count = Cardinality(knowledge[n].cells)
           /\ knowledge[n].count > 0

\* C10: a make_safe_move call leaves moves_made, mines, safes and knowledge
\* unchanged.
SafeMoveIsPure ==
    [][ (ret' # ret /\ ret' # NotCalled) =>
            UNCHANGED <<moves_made, mines, safes, knowledge>> ]_vars

\* a move was returned from a state that holds sentences and known mines
SafeMovePureWitness ==
    /\ IsCell(ret)
    /\ knowledge # <<>>
    /\ mines # {}
    /\ Cardinality(moves_made) > 1

\* C11: add_knowledge(c, n) adds c to moves_made and to safes; with N the
\* in-bounds neighbours of c in none of moves_made, mines, safes (c recorded
\* first), it appends the one sentence (N, n minus the neighbours of c already
\* in mines) and runs the fixpoint when N is not empty, and appends nothing
\* when N is empty.
Adjacent(a, b) ==
    /\ a # b
    /\ a[1] - b[1] \in -1 .. 1
    /\ a[2] - b[2] \in -1 .. 1

KnowledgeIngestion ==
    [][ (pc = "idle" /\ pc' # "idle") =>
          \E c \in Cells \ moves_made :
             LET nbrs == { x \in Cells : Adjacent(x, c) }
                 N    == { x \in nbrs : /\ x \notin moves_made \cup {c}
                                        /\ x \notin mines
                                        /\ x \notin safes \cup {c} }
                 n    == Cardinality({ x \in board : Adjacent(x, c) })
                 kept == [m \in 1 .. Len(knowledge) |->
                            [knowledge[m] EXCEPT !.cells = @ \ {c}]]
             IN  /\ moves_made' = moves_made \cup {c}
                 /\ safes' = safes \cup {c}
                 /\ mines' = mines
                 /\ IF N # {}
                    THEN /\ knowledge' =
                              kept \o << [cells |-> N,
                                          count |-> n - Cardinality(nbrs \cap mines)] >>
                         /\ pc' = "while"
                    ELSE /\ knowledge' = kept
                         /\ pc' = "extract" ]_vars

\* a sentence was appended with the known mines among the neighbours
\* subtracted, and the fixpoint is about to run
IngestionWitness ==
    /\ AtEntry
    /\ Len(knowledge) > 1
    /\ \E c \in moves_made :
           /\ mines \cap { x \in Cells : Adjacent(x, c) } # {}
           /\ knowledge[Len(knowledge)].cells \subseteq { x \in Cells : Adjacent(x, c) }
           /\ knowledge[Len(knowledge)].count < Cardinality({ x \in board : Adjacent(x, c) })

\* C12: a sequence of add_knowledge calls that makes a sentence's count
\* negative or larger than its cell-set is stopped with an error: no such
\* sentence is in knowledge when add_knowledge has returned, and no mines or
\* safes are derived from it.
Inconsistent(s) == s.count < 0 \/ s.count > Cardinality(s.cells)

FailFast ==
    pc = "idle" => \A s \in Sentences : ~Inconsistent(s)

\* C13: in a board-consistent game the count of every sentence is the number
\* of its cells that are mines of the minefield and are not yet in mines.
CountMeaning ==
    \A s \in Sentences : s.count = Cardinality((s.cells \cap board) \ mines)

\* C14: in a board-consistent game every sentence has 0 <= count <= number of
\* its cells, in the states between the steps of knowledge_update as well.
CountBounds ==
    \A s \in Sentences \cup {i} : 0 <= s.count /\ s.count <= Cardinality(s.cells)

\* inside knowledge_update, after a subset elimination has changed a count
CountBoundsWitness ==
    /\ pc = "for_j"
    /\ ~breaker
    /\ \E s \in Sentences : s.count > 0 /\ s.count < Cardinality(s.cells)
    /\ \E s \in Sentences : s.cells # {} /\ s.count = Cardinality(s.cells)

\* C15: when add_knowledge has returned, knowledge holds no sentence with an
\* empty cell-set.
NoEmptySentence ==
    pc = "idle" => \A s \in Sentences : s.cells # {}

\* C16: every change knowledge_update makes to a sentence is a subset
\* elimination: for two non-empty sentences A and B of the list with A.cells a
\* strict subset of B.cells, B becomes (B.cells minus A.cells, B.count minus
\* A.count), still non-empty, and A and every other sentence stay as they are;
\* without such a pair no sentence changes.
SubsetEliminationStep ==
    [][ (knowledge' # knowledge /\ Len(knowledge') = Len(knowledge)) =>
          \E a, b \in 1 .. Len(knowledge) :
             LET A == knowledge[a]
                 B == knowledge[b]
             IN  /\ a # b
                 /\ A.cells # {}
                 /\ A.cells \subseteq B.cells
                 /\ A.cells # B.cells
                 /\ B.cells \ A.cells # {}
                 /\ knowledge' = [knowledge EXCEPT
                                     ![b] = [cells |-> B.cells \ A.cells,
                                             count |-> B.count - A.count]] ]_vars

\* inside a pass, after an elimination, with a pair of overlapping sentences
\* of which neither is inside the other
SubsetEliminationWitness ==
    /\ pc = "for_j"
    /\ ~breaker
    /\ \E s, t \in Sentences :
           /\ s.cells \cap t.cells # {}
           /\ ~(s.cells \subseteq t.cells)
           /\ ~(t.cells \subseteq s.cells)

\* C17: mark_mine(cell) adds cell to mines and mark_safe(cell) adds cell to
\* safes; each takes cell out of every sentence that holds it, with the count
\* lowered by exactly 1 for mark_mine and kept for mark_safe, and leaves the
\* other sentences, moves_made and the other fact set as they are.
MarkedList(k, cell, dec) ==
    [n \in 1 .. Len(k) |->
        IF cell \in k[n].cells
        THEN [cells |-> k[n].cells \ {cell}, count |-> k[n].count - dec]
        ELSE k[n]]

MarkPropagation ==
    [][ (pc = "idle" /\ pc' = "idle" /\ ret' = ret) =>
          /\ moves_made' = moves_made
          /\ \E cell \in Cells :
                \/ /\ mines' = mines \cup {cell}
                   /\ safes' = safes
                   /\ knowledge' = MarkedList(knowledge, cell, 1)
                \/ /\ safes' = safes \cup {cell}
                   /\ mines' = mines
                   /\ knowledge' = MarkedList(knowledge, cell, 0) ]_vars

\* after one add_knowledge call, mark_mine has taken a cell out of its
\* sentence and lowered the count below 0, and mark_safe has been called
MarkPropagationWitness ==
    /\ pc = "idle"
    /\ Cardinality(moves_made) = 1
    /\ Len(knowledge) = 1
    /\ knowledge[1].count < 0
    /\ mines # {}
    /\ safes \ moves_made # {}

\* C18: no step of add_knowledge, mark_mine, mark_safe, make_safe_move or
\* make_random_move removes a cell from moves_made, mines or safes.
MonotonicGrowth ==
    [][ /\ moves_made \subseteq moves_made'
        /\ mines \subseteq mines'
        /\ safes \subseteq safes' ]_vars

\* a random move was returned after calls of the other operations
MonotonicWitness ==
    /\ IsCell(ret)
    /\ ret \notin safes
    /\ mines \cap safes # {}
    /\ Cardinality(moves_made) > 1
    /\ knowledge # <<>>

\* C19: known_mines() of a sentence is its cell-set when count equals the
\* number of cells and is not 0, and empty otherwise; known_safes() is its
\* cell-set when count is 0 and empty otherwise; the queries leave the
\* sentence as it is.  Stated on the extraction, which asks both of every
\* sentence.
FactQueries ==
    [][ (pc = "extract") =>
          /\ knowledge' = knowledge
          /\ mines' = mines \cup
                 { c \in ListCells :
                     \E s \in Sentences :
                        c \in s.cells /\ s.count = Cardinality(s.cells) /\ s.count # 0 }
          /\ safes' = safes \cup
                 { c \in ListCells :
                     \E s \in Sentences : c \in s.cells /\ s.count = 0 } ]_vars

\* the extraction has met an all-mines sentence, a count-0 sentence, and
\* a non-empty sentence that reports nothing, its count being negative
FactQueriesWitness ==
    /\ pc = "idle"
    /\ mines # {}
    /\ safes # {}
    /\ \E s \in Sentences : s.cells # {} /\ s.count < 0

\* C20: knowledge_update removes only sentences whose cell-set is empty: the
\* non-empty sentences of the list stay in it, in their order, through every
\* removal, and a subset elimination leaves each of them non-empty.
IsNonEmpty(s) == s.cells # {}

NonEmpty(k) == SelectSeq(k, IsNonEmpty)

NoInformationLost ==
    [][ (pc \in {"while", "for_i", "for_j"}) =>
          /\ Len(NonEmpty(knowledge')) = Len(NonEmpty(knowledge))
          /\ (Len(knowledge') # Len(knowledge) =>
                 NonEmpty(knowledge') = NonEmpty(knowledge)) ]_vars

\* the sentence bound to i was empty and has been removed from a list that
\* still holds an empty and a non-empty sentence
NoInformationLostWitness ==
    /\ pc = "for_j"
    /\ i.cells = {}
    /\ ~Contains(knowledge, i)
    /\ \E s \in Sentences : s.cells = {}
    /\ \E s \in Sentences : s.cells # {}

====
